---- MODULE Spec2Model ----
(***************************************************************************)
(* The submission grading pipeline of the marker backend:                  *)
(*   - POST /grade, PATCH /:id and the then/catch handlers of the route    *)
(*     (routes/submissionRoutes.ts),                                        *)
(*   - GradingService.gradeSubmission and its helpers                       *)
(*     (services/gradingService.ts),                                        *)
(*   - openaiService.analyzeCode (services/openaiService.ts),               *)
(*   - the Submission schema's validation (models/Submission.ts).           *)
(* One submission is followed from the request to its terminal handlers.   *)
(* Scores are exact rationals [n, d] with d > 0, in lowest terms.          *)
(***************************************************************************)
EXTENDS Integers, Sequences, FiniteSets, TLC

VARIABLES
    pc,               \* position of the request / pipeline / handlers
    viaRoute,         \* TRUE: dispatched by POST /grade; FALSE: gradeSubmission called directly
    sub,              \* the submission passed to gradeSubmission (url, project type, fileGlobs)
    tmpDir,           \* TRUE iff tmp/<submission id> exists on disk
    cleanup,          \* outcome of fs.rm(tempDir) in the finally block: none, removed, failed
    npmRegistryData,  \* local of gradeSubmission
    testResult,       \* local of gradeSubmission
    testRun,          \* local of runTests: how the child process of 'npm test' ended
    prompt,           \* local of analyzeCode: what buildPrompt was given
    llm,              \* local of analyzeCode: the completion call's outcome
    outcome,          \* how the promise of gradeSubmission settled
    trace,            \* the phases this run has executed, in order
    doc,              \* the route's in-memory Submission document
    dirty,            \* the paths of doc modified since its last successful save
    db,               \* the persisted Submission record
    patches,          \* number of admin PATCH requests served
    response,         \* the HTTP answer of POST /grade
    parseInput,       \* parseTestResults on its own: the output it is given
    parseResult,      \* parseTestResults on its own: what it returned
    deps,             \* fetchNpmVersions: Object.keys(deps)
    lookups,          \* fetchNpmVersions: how the fetch of each dependency went
    result,           \* fetchNpmVersions: the map it fills
    fetched,          \* fetchNpmVersions: idle, running, resolved, rejected
    repoFiles,        \* readRepoFiles: the files under repoPath and their contents
    patterns,         \* readRepoFiles: its fileGlobs argument
    matchedFiles,     \* readRepoFiles: the matched files that are still to be read
    fileContents,     \* readRepoFiles: the text it builds, one block per file
    collected         \* readRepoFiles: idle, globbing, reading, returned, raised

\* the grading pipeline and the route around it
Pipeline == <<pc, viaRoute, sub, tmpDir, cleanup, npmRegistryData, testResult, testRun,
              prompt, llm, outcome, trace, doc, dirty, db, patches, response>>

\* the helper functions when they are run on their own
Parser == <<parseInput, parseResult>>
Registry == <<deps, lookups, result, fetched>>
Collector == <<repoFiles, patterns, matchedFiles, fileContents, collected>>
Helpers == <<Parser, Registry, Collector>>

vars == <<Pipeline, Helpers>>

-----------------------------------------------------------------------------
(* Bounds of the model *)

MaxTests == 2      \* largest passing / failing count a test run reports (besides 10)
MaxPatches == 1    \* admin PATCH requests per submission

(* Policy constants of the code *)

PassThreshold == 70
ScoreMin == 0
ScoreMax == 100

-----------------------------------------------------------------------------
(* JavaScript values: undefined, and numbers as rationals *)

Absent == [absent |-> TRUE]

Abs(x) == IF x < 0 THEN -x ELSE x

RECURSIVE GCD(_, _)
GCD(a, b) == IF b = 0 THEN a ELSE GCD(b, a % b)

Rat(n, d) ==
    LET g == GCD(Abs(n), d)
    IN  [n |-> n \div g, d |-> d \div g]

Num(k) == [n |-> k, d |-> 1]

RAdd(a, b) == Rat(a.n * b.d + b.n * a.d, a.d * b.d)
RMul(a, b) == Rat(a.n * b.n, a.d * b.d)
RGeq(a, b) == a.n * b.d >= b.n * a.d
RLeq(a, b) == RGeq(b, a)

IsNumber(v) == "n" \in DOMAIN v
\* !v for a value that is undefined or a number
Falsy(v) == v = Absent \/ (IsNumber(v) /\ v.n = 0)
\* v || w
OrElse(v, w) == IF Falsy(v) THEN w ELSE v
\* v ?? w
Coalesce(v, w) == IF v = Absent THEN w ELSE v

-----------------------------------------------------------------------------
(* models/Submission.ts: enumerations and validators *)

Statuses == {"uploading", "installing", "testing", "reviewing", "reporting",
             "completed", "failed"}
Grades == {"pass", "fail", "pending"}
MetadataProjectTypes == {"express", "react", "fullstack"}

\* a URL is the sequence of its parts: an origin, then single characters
GithubOrigin == "https://github.com/"
GitlabOrigin == "https://gitlab.com/"

\* the characters of the class [\w\.-] that URLs of the model are made of
NameChars == {"o", "r", ".", "-"}

ValidUrl == << GithubOrigin, "o", "/", "r" >>
OtherUrl == << GitlabOrigin, "o", "/", "r" >>

\* the URLs a direct caller of gradeSubmission passes
Urls == {ValidUrl, OtherUrl}

\* req.body.githubUrl of POST /grade
RequestUrls ==
    Urls \cup
    { << " ", GithubOrigin, "o", "/", "r", " " >>,        \* padded with white space
      << GithubOrigin, "o", "/", "r", ";", "r" >>,        \* shell metacharacter
      << GithubOrigin, "o", "/", "r", " ", "-", "o" >>,   \* inner white space
      << GithubOrigin, "o", "/", "r", "/", "r" >>,        \* a third path segment
      << GithubOrigin, "o", ".", "/" >>,                  \* empty repository name
      << GithubOrigin, "o" >>,                            \* no repository
      << >> }

\* githubUrl: { trim: true }
RECURSIVE Trim(_)
Trim(v) ==
    IF v = << >> THEN v
    ELSE IF Head(v) = " " THEN Trim(Tail(v))
    ELSE IF v[Len(v)] = " " THEN Trim(SubSeq(v, 1, Len(v) - 1))
    ELSE v

\* [\w\.-]+
IsName(s) == Len(s) > 0 /\ \A i \in 1 .. Len(s) : s[i] \in NameChars

\* githubUrl.validate.validator:
\* /^https:\/\/github\.com\/[\w\.-]+\/[\w\.-]+(?:\.git)?$/.test(v)
GithubUrlValidator(v) ==
    /\ Len(v) > 0
    /\ v[1] = GithubOrigin
    /\ \E k \in 2 .. Len(v) :
        /\ v[k] = "/"
        /\ IsName(SubSeq(v, 2, k - 1))
        /\ IsName(SubSeq(v, k + 1, Len(v)))

\* submissionScoreSchema: total, testScore, qualityScore are required numbers in [0, 100]
ScoreInRange(x) == IsNumber(x) /\ RGeq(x, Num(ScoreMin)) /\ RLeq(x, Num(ScoreMax))

ScoresValid(s) ==
    s = Absent \/
    (ScoreInRange(s.total) /\ ScoreInRange(s.testScore) /\ ScoreInRange(s.qualityScore))

\* the validation mongoose runs in save() over the required and the modified paths
\* mutant: the schema has no validator on githubUrl
DocValidAnyUrl(d, url, metaType) ==
    /\ metaType \in MetadataProjectTypes
    /\ d.status \in Statuses
    /\ d.grade \in Grades
    /\ ScoresValid(d.scores)

DocValid(d, url, metaType) ==
    /\ GithubUrlValidator(url)
    /\ metaType \in MetadataProjectTypes
    /\ d.status \in Statuses
    /\ d.grade \in Grades
    /\ ScoresValid(d.scores)

Fields == {"status", "grade", "scores", "report", "error"}

\* what a successful save() writes: the modified paths of the document
Persist(record, d, modified) ==
    [f \in Fields |-> IF f \in modified THEN d[f] ELSE record[f]]

NoRecord == [absent |-> TRUE]

-----------------------------------------------------------------------------
(* services/gradingService.ts: test runner *)

TestCounts == (0 .. MaxTests) \cup {10}

\* the runner's output is the sequence of its words: a run of digits or another word
Digits(n) == [digits |-> n]
Word(w) == [word |-> w]
IsDigits(token) == DOMAIN token = {"digits"}

\* what a runner prints for one of its counts: nothing, or "<count> <word>"
Printed(w) == {<< >>} \cup {<< Digits(c), Word(w) >> : c \in TestCounts}

\* the outputs of a test run: the line of the passing count, then that of the failing count
Stdouts == {p \o f : p \in Printed("passing"), f \in Printed("failing")}

\* the positions where /(\d+) <word>/ matches
Matches(output, w) ==
    {i \in 1 .. Len(output) - 1 : IsDigits(output[i]) /\ output[i + 1] = Word(w)}

\* parseInt(output.match(/(\d+) <word>/)?.[1] || '0'): match returns the leftmost match
MatchedInt(output, w) ==
    LET m == Matches(output, w)
    IN  IF m = {} THEN 0
        ELSE output[CHOOSE i \in m : \A j \in m : i <= j].digits

\* mutant: the failing count alone is taken as the total
parseTestResultsFailingOnly(output) ==
    [passed  |-> MatchedInt(output, "passing"),
     total   |-> MatchedInt(output, "failing"),
     details |-> "output"]

parseTestResults(output) ==
    [passed  |-> MatchedInt(output, "passing"),
     total   |-> MatchedInt(output, "passing") + MatchedInt(output, "failing"),
     details |-> "output"]

\* exec: a child process that has ended, [exit |-> "ok" or "failed", stdout |-> ...]
runTests(exec) ==
    IF exec.exit = "ok"
    THEN parseTestResults(exec.stdout)
    ELSE [passed |-> 0, total |-> 0, details |-> "error.message"]

calculateTestScore(tr) ==
    IF tr.total > 0 THEN RMul(Rat(tr.passed, tr.total), Num(100)) ELSE Num(0)

NoTestResult == [passed |-> 0, total |-> 0, details |-> "unset"]


-----------------------------------------------------------------------------
(* services/openaiService.ts: quality reviewer *)

\* the markdown report of a response: the scores its text mentions, if any
\* ("Code Quality Score: N/100", "| Code Quality | N |"; likewise Code Smell)
ReportTexts == [kind : {"llm"}, quality : {Absent, Num(85)}, smell : {Absent, Num(80)}]

NoAnalysisProvided == [kind |-> "No analysis provided"]
AiAnalysisFailed(message) == [kind |-> "AI analysis failed", message |-> message]

\* numbers a model may put in a score field; 150 and -5 are outside [0, 100]
QualityValues == {Num(0), Rat(69999, 1000), Num(70), Num(85), Num(90), Num(150), Num(-5)}

\* numbers a model may put in the score field
ScoreValues == (QualityValues \ {Rat(69999, 1000)}) \cup {Rat(139, 2)}

EmptyObject ==
    [score |-> Absent, codeQualityScore |-> Absent, codeSmellScore |-> Absent,
     testScore |-> Absent, report |-> Absent]

PlainReport == [kind |-> "llm", quality |-> Absent, smell |-> Absent]

\* the JSON objects a completion may carry
ResponseObjects ==
    \* the schema the default prompt asks for
    {[EmptyObject EXCEPT !.codeQualityScore = q, !.testScore = Num(100),
                         !.report = PlainReport] : q \in QualityValues}
    \cup
    \* the schema of the earlier prompt
    {[EmptyObject EXCEPT !.score = q, !.report = PlainReport] : q \in ScoreValues}
    \cup
    \* the schema the C prompt asks for
    {[EmptyObject EXCEPT !.codeQualityScore = q, !.codeSmellScore = s,
                         !.report = PlainReport]
        : q \in QualityValues, s \in {Num(0), Num(80)}}
    \cup
    \* no score fields, with or without scores in the report text
    {[EmptyObject EXCEPT !.report = r] : r \in ReportTexts \cup {Absent}}
    \cup
    \* one score field only, the other to be found in the report text
    {[EmptyObject EXCEPT !.codeQualityScore = Num(85), !.report = r] : r \in ReportTexts}

Contents ==
    {[kind |-> "json", object |-> o] : o \in ResponseObjects}
    \cup {[kind |-> "embedded", object |-> o] : o \in
             {[EmptyObject EXCEPT !.score = Num(90), !.report = PlainReport],
              [EmptyObject EXCEPT !.codeQualityScore = Num(85),
                                  !.codeSmellScore = Num(80), !.report = PlainReport]}}
    \cup {[kind |-> "garbage", object |-> EmptyObject]}

\* outcomes of openai.chat.completions.create
Completions ==
    {[kind |-> "content", content |-> c] : c \in Contents}
    \cup {[kind |-> "threw", message |-> m] : m \in {"timeout", "rate limit"}}

NoCompletion == [kind |-> "none"]

\* JSON.parse of the whole body, else of the {...} substring, else {}
safeJsonParse(content) ==
    IF content.kind \in {"json", "embedded"} THEN content.object ELSE EmptyObject

CBreakdown(quality, smell) ==
    << [category |-> "Code Quality", score |-> quality, maxScore |-> 100],
       [category |-> "Code Smell", score |-> smell, maxScore |-> 100] >>

\* mutant: the catch block of analyzeCode drops the reason of the failure
analyzeCodeSilent(completion, projectType) ==
    IF completion.kind = "threw"
    THEN IF projectType = "c"
         THEN [codeSmellScore |-> Num(0), codeQualityScore |-> Num(0),
               report |-> NoAnalysisProvided,
               breakdown |-> CBreakdown(Num(0), Num(0))]
         ELSE [score |-> Num(0), report |-> NoAnalysisProvided]
    ELSE LET analysis == safeJsonParse(completion.content)
             report == IF analysis.report = Absent THEN NoAnalysisProvided
                       ELSE analysis.report
         IN  IF projectType = "c"
             THEN LET both == IsNumber(analysis.codeSmellScore)
                              /\ IsNumber(analysis.codeQualityScore)
                      smell == IF both THEN analysis.codeSmellScore ELSE Num(0)
                      quality == IF both THEN analysis.codeQualityScore ELSE Num(0)
                  IN  [codeSmellScore |-> smell, codeQualityScore |-> quality,
                       report |-> report, breakdown |-> CBreakdown(quality, smell)]
             ELSE [score |-> OrElse(analysis.score, Num(0)), report |-> report]

\* the try / catch of analyzeCode, after readRepoFiles and buildPrompt
analyzeCode(completion, projectType) ==
    IF completion.kind = "threw"
    THEN IF projectType = "c"
         THEN [codeSmellScore |-> Num(0), codeQualityScore |-> Num(0),
               report |-> AiAnalysisFailed(completion.message),
               breakdown |-> CBreakdown(Num(0), Num(0))]
         ELSE [score |-> Num(0), report |-> AiAnalysisFailed(completion.message)]
    ELSE LET analysis == safeJsonParse(completion.content)
             report == IF analysis.report = Absent THEN NoAnalysisProvided
                       ELSE analysis.report
         IN  IF projectType = "c"
             THEN LET both == IsNumber(analysis.codeSmellScore)
                              /\ IsNumber(analysis.codeQualityScore)
                      smell == IF both THEN analysis.codeSmellScore ELSE Num(0)
                      quality == IF both THEN analysis.codeQualityScore ELSE Num(0)
                  IN  [codeSmellScore |-> smell, codeQualityScore |-> quality,
                       report |-> report, breakdown |-> CBreakdown(quality, smell)]
             ELSE [score |-> OrElse(analysis.score, Num(0)), report |-> report]

\* buildPrompt: which template, and the test results and registry data it embeds
buildPrompt(testResultArg, registry, projectType) ==
    [template |-> IF projectType = "c" THEN "c" ELSE "default",
     testResults |-> testResultArg,
     registry |-> registry]

NoPrompt == [template |-> "none"]
\* the literal {} that gradeSubmission passes as analyzeCode's testResult
EmptyTestResultArg == [empty |-> TRUE]


-----------------------------------------------------------------------------
(* services/gradingService.ts: score composition *)

extractScoresFromReport(report) ==
    IF report.kind = "llm"
    THEN [codeQualityScore |-> Coalesce(report.quality, Num(0)),
          codeSmellScore   |-> Coalesce(report.smell, Num(0))]
    ELSE [codeQualityScore |-> Num(0), codeSmellScore |-> Num(0)]

\* mutant: a strict comparison
GradeOfStrict(totalScore) ==
    IF RGeq(totalScore, Num(PassThreshold)) /\ totalScore # Num(PassThreshold)
    THEN "pass" ELSE "fail"

\* totalScore >= 70 ? 'pass' : 'fail'
GradeOf(totalScore) == IF RGeq(totalScore, Num(PassThreshold)) THEN "pass" ELSE "fail"

\* mutant: equal weights
WeightedTotalEven(testScore, qualityScore) ==
    RAdd(RMul(testScore, Rat(5, 10)), RMul(qualityScore, Rat(5, 10)))

\* (testScore * 0.8) + (qualityScore * 0.2)
WeightedTotal(testScore, qualityScore) ==
    RAdd(RMul(testScore, Rat(8, 10)), RMul(qualityScore, Rat(2, 10)))

\* the branch taken when submission.metadata?.projectType === 'c'
ComposeC(qualityResult) ==
    LET q0 == Coalesce(qualityResult.codeQualityScore, Num(0))
        s0 == Coalesce(qualityResult.codeSmellScore, Num(0))
        extracted == extractScoresFromReport(qualityResult.report)
        rescue == Falsy(q0) \/ Falsy(s0)
        qualityScore == IF rescue /\ Falsy(q0) THEN extracted.codeQualityScore ELSE q0
        codeSmellScore == IF rescue /\ Falsy(s0) THEN extracted.codeSmellScore ELSE s0
        totalScore == qualityScore
        breakdown == IF Len(qualityResult.breakdown) > 0
                     THEN qualityResult.breakdown
                     ELSE CBreakdown(qualityScore, codeSmellScore)
    IN  [grade  |-> GradeOf(totalScore),
         scores |-> [total |-> totalScore, testScore |-> Num(0),
                     qualityScore |-> qualityScore, breakdown |-> breakdown],
         report |-> [kind |-> "c", quality |-> qualityScore, smell |-> codeSmellScore,
                     body |-> qualityResult.report]]

\* the code after the C branch ("For non-C projects")
ComposeDefault(tr, qualityResult) ==
    LET testScore == calculateTestScore(tr)
        qualityScore == Coalesce(qualityResult.score, Num(0))
        totalScore == WeightedTotal(testScore, qualityScore)
    IN  [grade  |-> GradeOf(totalScore),
         scores |-> [total |-> totalScore, testScore |-> testScore,
                     qualityScore |-> qualityScore, breakdown |-> << >>],
         report |-> [kind |-> "default", passed |-> tr.passed, total |-> tr.total,
                     body |-> qualityResult.report]]

\* the project type gradeSubmission hands to analyzeCode
ReviewType(submission) ==
    IF submission.metaType = "c" THEN "c" ELSE submission.projectType

Compose(submission, tr, completion) ==
    IF submission.metaType = "c"
    THEN ComposeC(analyzeCode(completion, "c"))
    ELSE ComposeDefault(tr, analyzeCode(completion, submission.projectType))

\* catch (error) { throw new Error(`Grading failed: ${error.message}`) }
GradingFailed(message) == [kind |-> "Grading failed", message |-> message]

\* mutant: the removal reports success and removes nothing
AfterRmKeeps(exists, rmOk) == exists

\* fs.rm(tempDir, {recursive, force}) inside its own try / catch
AfterRm(exists, rmOk) == IF rmOk THEN FALSE ELSE exists


-----------------------------------------------------------------------------
(* Inputs *)

ProjectTypes == {"express", "c", "undefined"}

\* req.body.fileGlobs: missing, or a truthy value that is no list of patterns
FileGlobs == {"undefined", "notIterable"}

RegistryData == {[kind |-> "error"], [kind |-> "versions"]}
NoRegistryData == [kind |-> "unset"]

\* how a child process started by execPromise ends: exit code 0, a failure (non-zero exit
\* code, or no process at all), or never: no call passes a timeout
Exits == {"ok", "failed", "never"}

\* the outcomes of execPromise('npm test'): the exit and what the runner printed by then
Execs == [exit : Exits \ {"never"}, stdout : Stdouts] \cup {[exit |-> "never"]}

NoTestRun == [exit |-> "unset"]

NoSubmission == [absent |-> TRUE]
Pending == [kind |-> "pending"]

\* mutant: the route creates the submission in a later status
NewDocumentInstalling ==
    [status |-> "installing", grade |-> "pending", scores |-> Absent,
     report |-> Absent, error |-> Absent]

NewDocument ==
    [status |-> "uploading", grade |-> "pending", scores |-> Absent,
     report |-> Absent, error |-> Absent]

SaveError == [kind |-> "save rejected", message |-> "save rejected"]

InvalidGithubUrl == "Must be a valid GitHub repository URL"

\* the error of the first submission.save() that POST /grade hands to next(error)
\* the validation errors of metadata.projectType: 'c' is no member of the enum, and a
\* request without projectType misses a required path
ProjectTypeCNotInEnum == "c is not a valid enum value for path metadata.projectType"
ProjectTypeRequired == "Path metadata.projectType is required"

CreationError(url, metaType) ==
    IF ~GithubUrlValidator(url) THEN InvalidGithubUrl
    ELSE IF metaType = "c" THEN ProjectTypeCNotInEnum
    ELSE IF metaType \notin MetadataProjectTypes THEN ProjectTypeRequired
    ELSE "save rejected"

-----------------------------------------------------------------------------
(* State machine *)

PipelineIdle ==
    /\ pc = "idle"
    /\ viaRoute = FALSE
    /\ sub = NoSubmission
    /\ tmpDir = FALSE
    /\ cleanup = "none"
    /\ npmRegistryData = NoRegistryData
    /\ testResult = NoTestResult
    /\ testRun = NoTestRun
    /\ prompt = NoPrompt
    /\ llm = NoCompletion
    /\ outcome = Pending
    /\ trace = << >>
    /\ doc = NoRecord
    /\ dirty = {}
    /\ db = NoRecord
    /\ patches = 0
    /\ response = "none"

ParserIdle == parseInput = << >> /\ parseResult = NoTestResult

RegistryIdle == deps = {} /\ lookups = << >> /\ result = << >> /\ fetched = "idle"

CollectorIdle ==
    /\ repoFiles = << >>
    /\ patterns = << >>
    /\ matchedFiles = << >>
    /\ fileContents = << >>
    /\ collected = "idle"

Init == PipelineIdle /\ ParserIdle /\ RegistryIdle /\ CollectorIdle

Locals == <<npmRegistryData, testResult, testRun, prompt, llm>>
Record == <<doc, dirty, db, patches, response>>

\* router.post('/grade'): build the document, save it, dispatch, answer 202
PostGrade ==
    /\ pc = "idle"
    /\ \E url \in RequestUrls, type \in ProjectTypes, globs \in FileGlobs, saveOk \in BOOLEAN :
        IF saveOk /\ DocValid(NewDocument, Trim(url), type)
        THEN /\ doc' = NewDocument
             /\ dirty' = {}
             /\ db' = NewDocument
             /\ sub' = [githubUrl |-> Trim(url), projectType |-> "undefined",
                        metaType |-> type, fileGlobs |-> globs]
             /\ viaRoute' = TRUE
             /\ response' = "202"
             /\ pc' = "clone"
        ELSE /\ response' = CreationError(Trim(url), type)
             /\ pc' = "rejected"
             /\ UNCHANGED <<doc, dirty, db, sub, viaRoute>>
    /\ UNCHANGED Helpers
    /\ UNCHANGED <<tmpDir, cleanup, Locals, outcome, trace, patches>>

\* gradingService.gradeSubmission(submission, fileGlobs) called by another caller
GradeDirect ==
    /\ pc = "idle"
    /\ \E url \in Urls, type \in ProjectTypes \ {"undefined"}, globs \in FileGlobs :
        sub' = [githubUrl |-> url, projectType |-> type,
                metaType |-> type, fileGlobs |-> globs]
    /\ viaRoute' = FALSE
    /\ pc' = "clone"
    /\ UNCHANGED Helpers
    /\ UNCHANGED <<tmpDir, cleanup, Locals, outcome, trace, Record>>

\* await this.cloneRepository(submission.githubUrl, tempDir)
Clone ==
    /\ pc = "clone"
    /\ trace' = Append(trace, "clone")
    /\ \E exit \in Exits, leftover \in BOOLEAN :
        CASE exit = "ok" ->
                /\ tmpDir' = TRUE
                /\ pc' = "package"
                /\ UNCHANGED outcome
          [] exit = "failed" ->
                /\ tmpDir' = leftover
                /\ outcome' = [kind |-> "throw",
                               error |-> GradingFailed("Command failed: git clone")]
                /\ pc' = "finally"
          [] exit = "never" ->
                /\ tmpDir' = leftover
                /\ pc' = "hung"
                /\ UNCHANGED outcome
    /\ UNCHANGED Helpers
    /\ UNCHANGED <<viaRoute, sub, cleanup, Locals, Record>>

\* mutant: the registry step hands over to the test run and the installation is skipped
ReadPackageJsonSkipsInstall ==
    /\ pc = "package"
    /\ trace' = Append(trace, "registry")
    /\ npmRegistryData' \in RegistryData
    /\ pc' = "test"
    /\ UNCHANGED Helpers
    /\ UNCHANGED <<viaRoute, sub, tmpDir, cleanup, testResult, testRun, prompt, llm, outcome,
                   Record>>

\* the inner try / catch around package.json and fetchNpmVersions
ReadPackageJson ==
    /\ pc = "package"
    /\ trace' = Append(trace, "registry")
    /\ npmRegistryData' \in RegistryData
    /\ pc' = "install"
    /\ UNCHANGED Helpers
    /\ UNCHANGED <<viaRoute, sub, tmpDir, cleanup, testResult, testRun, prompt, llm, outcome,
                   Record>>

\* await execPromise('npm install', { cwd: tempDir })
Install ==
    /\ pc = "install"
    /\ trace' = Append(trace, "install")
    /\ \E exit \in Exits :
        CASE exit = "ok" -> pc' = "test" /\ UNCHANGED outcome
          [] exit = "failed" ->
                /\ outcome' = [kind |-> "throw",
                               error |-> GradingFailed("Command failed: npm install")]
                /\ pc' = "finally"
          [] exit = "never" -> pc' = "hung" /\ UNCHANGED outcome
    /\ UNCHANGED Helpers
    /\ UNCHANGED <<viaRoute, sub, tmpDir, cleanup, Locals, Record>>

\* mutant: runTests lets the rejection of execPromise escape
RunTestsRaises ==
    /\ pc = "test"
    /\ trace' = Append(trace, "test")
    /\ \E exec \in Execs :
        /\ testRun' = exec
        /\ CASE exec.exit = "never" -> pc' = "hung" /\ UNCHANGED <<testResult, outcome>>
             [] exec.exit = "failed" ->
                    /\ outcome' = [kind |-> "throw",
                                   error |-> GradingFailed("Command failed: npm test")]
                    /\ pc' = "finally"
                    /\ UNCHANGED testResult
             [] exec.exit = "ok" ->
                    /\ pc' = "collect"
                    /\ testResult' = runTests(exec)
                    /\ UNCHANGED outcome
    /\ UNCHANGED Helpers
    /\ UNCHANGED <<viaRoute, sub, tmpDir, cleanup, npmRegistryData, prompt, llm, Record>>

\* const testResult = await this.runTests(tempDir)
RunTests ==
    /\ pc = "test"
    /\ trace' = Append(trace, "test")
    /\ \E exec \in Execs :
        /\ testRun' = exec
        /\ IF exec.exit = "never"
           THEN pc' = "hung" /\ UNCHANGED testResult
           ELSE pc' = "collect" /\ testResult' = runTests(exec)
    /\ UNCHANGED Helpers
    /\ UNCHANGED <<viaRoute, sub, tmpDir, cleanup, npmRegistryData, prompt, llm, outcome, Record>>

\* analyzeCode up to its try: readRepoFiles (glob over fileGlobs) and buildPrompt
Collect ==
    /\ pc = "collect"
    /\ trace' = Append(trace, "collect")
    /\ IF sub.fileGlobs = "notIterable"
       THEN /\ outcome' = [kind |-> "throw",
                           error |-> GradingFailed("fileGlobs is not iterable")]
            /\ pc' = "finally"
            /\ UNCHANGED prompt
       ELSE /\ prompt' = buildPrompt(EmptyTestResultArg, npmRegistryData, ReviewType(sub))
            /\ pc' = "review"
            /\ UNCHANGED outcome
    /\ testRun' = NoTestRun
    /\ UNCHANGED Helpers
    /\ UNCHANGED <<viaRoute, sub, tmpDir, cleanup, npmRegistryData, testResult, llm, Record>>

\* the completion call, the parse of its answer, and the score composition
Review ==
    /\ pc = "review"
    /\ trace' = trace \o << "review", "compose" >>
    /\ \E completion \in Completions :
        /\ llm' = completion
        /\ outcome' = [kind |-> "return", result |-> Compose(sub, testResult, completion)]
    /\ pc' = "finally"
    /\ UNCHANGED Helpers
    /\ UNCHANGED <<viaRoute, sub, tmpDir, cleanup, npmRegistryData, testResult, testRun, prompt, Record>>

\* finally { try { await fs.rm(tempDir, ...) } catch { console.warn(...) } }
Finally ==
    /\ pc = "finally"
    /\ \E rmOk \in BOOLEAN :
        /\ tmpDir' = AfterRm(tmpDir, rmOk)
        /\ cleanup' = IF rmOk THEN "removed" ELSE "failed"
    /\ npmRegistryData' = NoRegistryData
    /\ testResult' = NoTestResult
    /\ testRun' = NoTestRun
    /\ prompt' = NoPrompt
    /\ llm' = NoCompletion
    /\ pc' = "settled"
    /\ UNCHANGED Helpers
    /\ UNCHANGED <<viaRoute, sub, outcome, trace, Record>>


\* submission.save() of the route's document: validation, then the write
SaveSucceeds(d, dbOk) == dbOk /\ DocValid(d, sub.githubUrl, sub.metaType)

\* .then(async (result) => { ...; await submission.save(); })
ThenHandler ==
    /\ pc = "settled"
    /\ viaRoute
    /\ outcome.kind = "return"
    /\ \E dbOk \in BOOLEAN :
        LET graded == [doc EXCEPT !.status = "completed",
                                  !.grade = outcome.result.grade,
                                  !.scores = outcome.result.scores,
                                  !.report = outcome.result.report]
            modified == dirty \cup {"status", "grade", "scores", "report"}
        IN  /\ doc' = graded
            /\ IF SaveSucceeds(graded, dbOk)
               THEN /\ db' = Persist(db, graded, modified)
                    /\ dirty' = {}
                    /\ pc' = "done"
               ELSE /\ dirty' = modified
                    /\ pc' = "thenRejected"
                    /\ UNCHANGED db
    /\ UNCHANGED Helpers
    /\ UNCHANGED <<viaRoute, sub, tmpDir, cleanup, Locals, outcome, trace, patches, response>>

\* mutant: the handler stores a fixed text instead of error.message
CaughtErrorGeneric == SaveError

\* the reason the .catch handler receives
CaughtError == IF outcome.kind = "throw" THEN outcome.error ELSE SaveError

\* .catch(async (error) => { ...; await submission.save(); })
CatchHandler ==
    /\ viaRoute
    /\ \/ pc = "settled" /\ outcome.kind = "throw"
       \/ pc = "thenRejected"
    /\ \E dbOk \in BOOLEAN :
        LET failed == [doc EXCEPT !.status = "failed", !.error = CaughtError]
            modified == dirty \cup {"status", "error"}
        IN  /\ doc' = failed
            /\ IF SaveSucceeds(failed, dbOk)
               THEN /\ db' = Persist(db, failed, modified)
                    /\ dirty' = {}
                    /\ pc' = "done"
               ELSE /\ dirty' = modified
                    /\ pc' = "unhandledRejection"
                    /\ UNCHANGED db
    /\ UNCHANGED Helpers
    /\ UNCHANGED <<viaRoute, sub, tmpDir, cleanup, Locals, outcome, trace, patches, response>>

\* req.body of PATCH /:id: "" stands for a missing (falsy) field
PatchStatuses == {"", "uploading", "testing", "completed", "failed", "bogus"}
PatchGrades == {"", "pass", "pending"}
PatchErrors == {"", "manual override"}

AdminError(text) == [kind |-> "admin", message |-> text]

\* router.patch('/:id'): findById, assign the truthy fields, save
PatchSubmission ==
    /\ db # NoRecord
    /\ patches < MaxPatches
    /\ patches' = patches + 1
    /\ \E status \in PatchStatuses, grade \in PatchGrades, error \in PatchErrors :
        LET loaded == db
            s1 == IF status # "" THEN [loaded EXCEPT !.status = status] ELSE loaded
            s2 == IF grade # "" THEN [s1 EXCEPT !.grade = grade] ELSE s1
            s3 == IF error # "" THEN [s2 EXCEPT !.error = AdminError(error)] ELSE s2
        IN  IF s3.status \in Statuses /\ s3.grade \in Grades
            THEN db' = s3
            ELSE UNCHANGED db
    /\ UNCHANGED Helpers
    /\ UNCHANGED <<pc, viaRoute, sub, tmpDir, cleanup, Locals, outcome, trace,
                   doc, dirty, response>>

Next ==
    \/ PostGrade
    \/ GradeDirect
    \/ Clone
    \/ ReadPackageJson
    \/ Install
    \/ RunTests
    \/ Collect
    \/ Review
    \/ Finally
    \/ ThenHandler
    \/ CatchHandler
    \/ PatchSubmission

Spec == Init /\ [][Next]_vars


-----------------------------------------------------------------------------
(* parseTestResults on its own, over any runner output *)

MaxWords == 4      \* longest runner output, in words

Words == {"passing", "failing", "pending"}
Tokens == {Digits(c) : c \in TestCounts} \cup {Word(w) : w \in Words}

\* any text a runner may print
Outputs == UNION {[1 .. n -> Tokens] : n \in 0 .. MaxWords}

InitParser ==
    /\ PipelineIdle
    /\ RegistryIdle
    /\ CollectorIdle
    /\ parseInput \in Outputs
    /\ parseResult = NoTestResult

\* return this.parseTestResults(stdout)
Parse ==
    /\ parseResult = NoTestResult
    /\ parseResult' = parseTestResults(parseInput)
    /\ UNCHANGED <<parseInput, Pipeline, Registry, Collector>>

NextParser == Parse

SpecParser == InitParser /\ [][NextParser]_vars

-----------------------------------------------------------------------------
(* fetchNpmVersions on its own: concurrent lookups settling in any order *)

DepNames == {"express", "lodash", "mocha"}
Versions == {"1.0.0", "2.0.0"}

PendingLookup == [kind |-> "pending"]

\* how the fetch of one dependency ends: an answer with res.ok whose dist-tags.latest is
\* a version or missing (""), an answer without res.ok, a rejected fetch, a rejected
\* res.json()
LookupOutcomes ==
    {[kind |-> "ok", latest |-> v] : v \in Versions \cup {""}}
    \cup {[kind |-> "notOk"], [kind |-> "fetchThrew"], [kind |-> "jsonThrew"]}

\* result[dep] = data['dist-tags']?.latest || 'unknown', and 'unknown' in the catch
LookupEntry(o) ==
    IF o.kind = "ok" /\ o.latest # "" THEN o.latest ELSE "unknown"

\* result[dep] = entry
Put(map, dep, entry) ==
    [d \in DOMAIN map \cup {dep} |-> IF d = dep THEN entry ELSE map[d]]

\* fetchNpmVersions(deps) is called: every key of deps gets its own async lookup
InitRegistry ==
    /\ PipelineIdle
    /\ ParserIdle
    /\ CollectorIdle
    /\ deps \in SUBSET DepNames
    /\ lookups = [d \in deps |-> PendingLookup]
    /\ result = << >>
    /\ fetched = "running"

\* mutant: a lookup without its try / catch: its failure rejects the Promise.all
LookupSettlesUnguarded(dep) ==
    /\ fetched = "running"
    /\ dep \in deps
    /\ lookups[dep] = PendingLookup
    /\ \E o \in LookupOutcomes :
        /\ lookups' = [lookups EXCEPT ![dep] = o]
        /\ IF o.kind = "ok"
           THEN result' = Put(result, dep, LookupEntry(o)) /\ UNCHANGED fetched
           ELSE fetched' = "rejected" /\ UNCHANGED result
    /\ UNCHANGED <<deps, Pipeline, Parser, Collector>>

\* one callback of the map: try { fetch; res.json(); result[dep] = ... } catch { ... }
LookupSettles(dep) ==
    /\ fetched = "running"
    /\ dep \in deps
    /\ lookups[dep] = PendingLookup
    /\ \E o \in LookupOutcomes :
        /\ lookups' = [lookups EXCEPT ![dep] = o]
        /\ result' = Put(result, dep, LookupEntry(o))
        /\ UNCHANGED fetched
    /\ UNCHANGED <<deps, Pipeline, Parser, Collector>>

\* await Promise.all(...); return result
FetchResolves ==
    /\ fetched = "running"
    /\ \A d \in deps : lookups[d] # PendingLookup
    /\ fetched' = "resolved"
    /\ UNCHANGED <<deps, lookups, result, Pipeline, Parser, Collector>>

NextRegistry ==
    \/ \E dep \in DepNames : LookupSettles(dep)
    \/ FetchResolves

SpecRegistry == InitRegistry /\ [][NextRegistry]_vars

-----------------------------------------------------------------------------
(* readRepoFiles and sanitizeCode on their own *)

\* if (content.length > 10000) content = content.slice(0, 10000) + ...
FileCharCap == 10000

\* characters by their code: NUL, tab, line feed, carriage return, ESC, space, 'A', DEL
Chars == {0, 9, 10, 13, 27, 32, 65, 127}

\* a text is a sequence of runs: count times the character ch
Run(ch, count) == [ch |-> ch, count |-> count]

RECURSIVE Length(_)
Length(text) == IF text = << >> THEN 0 ELSE Head(text).count + Length(Tail(text))

\* text.slice(0, n)
RECURSIVE Slice(_, _)
Slice(text, n) ==
    IF text = << >> \/ n <= 0 THEN << >>
    ELSE IF Head(text).count >= n THEN << Run(Head(text).ch, n) >>
    ELSE << Head(text) >> \o Slice(Tail(text), n - Head(text).count)

\* the class [\x00-\x09\x0B-\x1F\x7F]
Stripped(ch) == (0 <= ch /\ ch <= 9) \/ (11 <= ch /\ ch <= 31) \/ ch = 127

\* code.replace(/[\x00-\x09\x0B-\x1F\x7F]/g, '')
sanitizeCode(code) ==
    LET Kept(run) == ~Stripped(run.ch)
    IN  SelectSeq(code, Kept)

\* the files of the model, by their path relative to repoPath, in glob's order
Listing == << "README.md", "src/index.js" >>
Paths == {Listing[i] : i \in 1 .. Len(Listing)}

\* glob(..., { absolute: true }) and path.relative(repoPath, file)
Absolute(rel) == << "repoPath", rel >>
Relative(file) == file[2]

\* the contents of a file: 'A's, one character of any kind, and a last 'A'
FileTexts ==
    {<< Run(65, n), Run(ch, 1), Run(65, 1) >> :
        n \in {1, FileCharCap - 2, FileCharCap - 1, FileCharCap}, ch \in Chars}

Unreadable == [readable |-> FALSE]
Files == {Unreadable} \cup {[readable |-> TRUE, content |-> t] : t \in FileTexts}

\* the repositories of the model: which paths exist, and what each file holds
Repositories == UNION {[present -> Files] : present \in SUBSET Paths}

PatternLists ==
    { << >>, << "README.md" >>, << "**/*" >>, << "README.md", "**/*" >>,
      << "src/**/*.js", "README.md" >>, << "**/*", "**/*" >> }

\* the paths a pattern matches
Matching(pattern) ==
    CASE pattern = "README.md"   -> {"README.md"}
      [] pattern = "src/**/*.js" -> {"src/index.js"}
      [] pattern = "**/*"        -> Paths

\* await glob(pattern, { cwd: repoPath, absolute: true, nodir: true })
Glob(files, pattern) ==
    LET Hit(rel) == rel \in DOMAIN files /\ rel \in Matching(pattern)
    IN  [i \in 1 .. Len(SelectSeq(Listing, Hit)) |-> Absolute(SelectSeq(Listing, Hit)[i])]

\* matches.forEach(f => matchedFiles.add(f)): a Set keeps the first insertion only
RECURSIVE AddAll(_, _)
AddAll(set, matches) ==
    IF matches = << >> THEN set
    ELSE LET f == Head(matches)
             seen == \E i \in 1 .. Len(set) : set[i] = f
         IN  AddAll(IF seen THEN set ELSE Append(set, f), Tail(matches))

\* mutant: an array instead of a Set
RECURSIVE MatchAllKeepsDuplicates(_, _)
MatchAllKeepsDuplicates(files, pats) ==
    IF pats = << >> THEN << >>
    ELSE Glob(files, Head(pats)) \o MatchAllKeepsDuplicates(files, Tail(pats))

\* the first loop of readRepoFiles, over the patterns in their order
RECURSIVE MatchAll(_, _)
MatchAll(files, pats) ==
    IF pats = << >> THEN << >>
    ELSE LET n == Len(pats)
         IN  AddAll(MatchAll(files, SubSeq(pats, 1, n - 1)), Glob(files, pats[n]))

\* `// ${path.relative(repoPath, file)}\n${content}\n\n`, content cut at the cap
Block(file, content) ==
    LET clean == sanitizeCode(content)
        long == Length(clean) > FileCharCap
    IN  [header |-> Relative(file),
         body |-> IF long THEN Slice(clean, FileCharCap) ELSE clean,
         truncated |-> long]

\* readRepoFiles(repoPath, fileGlobs) is called on any repository with any patterns
InitCollector ==
    /\ PipelineIdle
    /\ ParserIdle
    /\ RegistryIdle
    /\ repoFiles \in Repositories
    /\ patterns \in PatternLists
    /\ matchedFiles = << >>
    /\ fileContents = << >>
    /\ collected = "globbing"

\* for (const pattern of fileGlobs) { ... }
GlobPatterns ==
    /\ collected = "globbing"
    /\ matchedFiles' = MatchAll(repoFiles, patterns)
    /\ collected' = "reading"
    /\ UNCHANGED <<repoFiles, patterns, fileContents, Pipeline, Parser, Registry>>

\* one round of for (const file of matchedFiles) { try { ... } catch {} }
ReadFile ==
    /\ collected = "reading"
    /\ matchedFiles # << >>
    /\ LET file == Head(matchedFiles)
           stored == repoFiles[Relative(file)]
       IN  fileContents' = IF stored.readable
                           THEN Append(fileContents, Block(file, stored.content))
                           ELSE fileContents
    /\ matchedFiles' = Tail(matchedFiles)
    /\ UNCHANGED <<repoFiles, patterns, collected, Pipeline, Parser, Registry>>

\* return fileContents
ReturnFileContents ==
    /\ collected = "reading"
    /\ matchedFiles = << >>
    /\ collected' = "returned"
    /\ UNCHANGED <<repoFiles, patterns, matchedFiles, fileContents, Pipeline, Parser, Registry>>

NextCollector ==
    \/ GlobPatterns
    \/ ReadFile
    \/ ReturnFileContents

SpecCollector == InitCollector /\ [][NextCollector]_vars

-----------------------------------------------------------------------------
(* Vocabulary of the properties *)

\* gradeSubmission has returned or raised
Returned == pc \in {"settled", "thenRejected", "done", "unhandledRejection"}

\* the route's handlers have finished for this submission
HandlersFinished == viaRoute /\ pc \in {"done", "unhandledRejection"}

LastPhase == IF Len(trace) = 0 THEN "none" ELSE trace[Len(trace)]

\* gradeSubmission raised because git clone or npm install failed
FatalFailure == outcome.kind = "throw" /\ LastPhase \in {"clone", "install"}

Present(v) == v # Absent

StatusOf(record) == IF record = NoRecord THEN "none" ELSE record.status

Terminal == {"completed", "failed"}

Rank(status) ==
    CASE status = "uploading"  -> 0
      [] status = "installing" -> 1
      [] status = "testing"    -> 2
      [] status = "reviewing"  -> 3
      [] status = "reporting"  -> 4
      [] status = "completed"  -> 5
      [] OTHER                 -> 6

Forward(a, b) ==
    \/ a = b
    \/ a = "none"
    \/ a \notin Terminal /\ (b = "failed" \/ (b \in Statuses /\ Rank(b) > Rank(a)))

-----------------------------------------------------------------------------
(* C1 *)

\* C1 as stated: once gradeSubmission has returned or raised, on whatever exit path,
\* the working directory tmp/<submission id> does not exist.
C1_DirectoryGone == Returned => ~tmpDir

\* C1 amended: once gradeSubmission has returned or raised, on whatever exit path,
\* the removal of the working directory has been attempted, and the directory exists
\* only if that removal failed.
C1_CleanupOnEveryExit ==
    Returned => /\ cleanup # "none"
                /\ tmpDir => cleanup = "failed"

\* an install failure after a successful clone, with the directory removed
C1_Witness ==
    /\ pc = "settled"
    /\ outcome.kind = "throw"
    /\ trace = << "clone", "registry", "install" >>
    /\ cleanup = "removed"
    /\ ~tmpDir

-----------------------------------------------------------------------------
(* C2 *)

\* C2 as stated: the status of the submission is never set to 'completed' and then
\* to 'failed' (or the other way round), also when the save of the result fails.
C2_OneTerminalStatus ==
    [][ /\ ~(StatusOf(doc) = "completed" /\ StatusOf(doc') = "failed")
        /\ ~(StatusOf(doc) = "failed" /\ StatusOf(doc') = "completed") ]_vars

-----------------------------------------------------------------------------
(* C3 *)

FatalMessage ==
    IF LastPhase = "clone" THEN "Command failed: git clone"
    ELSE "Command failed: npm install"

\* C3: when git clone or npm install fails, no later phase runs and gradeSubmission
\* raises an error carrying the cause's message; the route's failure handler then
\* leaves the submission with status 'failed', error set to that message and neither
\* scores nor report, and its save writes exactly that to the record.
C3_FatalFailureAborts ==
    [][ /\ FatalFailure' =>
              /\ trace' \in {<< "clone" >>, << "clone", "registry", "install" >>}
              /\ outcome'.error.kind = "Grading failed"
              /\ outcome'.error.message = FatalMessage'
        /\ (FatalFailure' /\ HandlersFinished') =>
              /\ doc'.status = "failed"
              /\ doc'.error = outcome'.error
              /\ doc'.scores = Absent
              /\ doc'.report = Absent
        /\ (FatalFailure /\ viaRoute /\ pc = "settled" /\ pc' = "done") =>
              /\ db'.status = "failed"
              /\ db'.error = outcome.error
              /\ db'.scores = Absent
              /\ db'.report = Absent ]_vars

\* an install failure whose failure handler has saved the record
C3_Witness ==
    /\ FatalFailure
    /\ LastPhase = "install"
    /\ pc = "done"
    /\ db.status = "failed"
    /\ db.error = GradingFailed("Command failed: npm install")

-----------------------------------------------------------------------------
(* C4 *)

\* C4 as stated: gradeSubmission raises only when clone or install failed, and in
\* every other case the submission ends 'completed' with scores, grade and report.
C4_OnlyFatalCausesRaise ==
    /\ outcome.kind = "throw" => FatalFailure
    /\ (HandlersFinished /\ ~FatalFailure) =>
          /\ doc.status = "completed"
          /\ Present(doc.scores)
          /\ Present(doc.report)
          /\ doc.grade \in {"pass", "fail"}

-----------------------------------------------------------------------------
(* C5 *)

\* C5 as stated: in every state of the persisted record, scores and report are
\* present if and only if status = 'completed'.
C5_ScoresIffCompleted ==
    db # NoRecord =>
        /\ Present(db.scores) <=> db.status = "completed"
        /\ Present(db.report) <=> db.status = "completed"

-----------------------------------------------------------------------------
(* C6 *)

\* C6 as stated: in every state of the persisted record, error is present if and
\* only if status = 'failed'.
C6_ErrorIffFailed ==
    db # NoRecord => (Present(db.error) <=> db.status = "failed")

-----------------------------------------------------------------------------
(* C7 *)

\* C7 as stated: the status of a submission, persisted or in memory, only moves
\* forward along uploading, installing, testing, reviewing, reporting, completed,
\* enters 'failed' only from a non-terminal status, and never leaves a terminal one.
C7_StatusOnlyForward ==
    [][ /\ Forward(StatusOf(db), StatusOf(db'))
        /\ Forward(StatusOf(doc), StatusOf(doc')) ]_vars


-----------------------------------------------------------------------------
(* C8 *)

\* the object the completion carried, when the run is about to return its result
Reviewed == pc = "finally" /\ outcome.kind = "return" /\ llm.kind = "content"
ReviewedObject == safeJsonParse(llm.content)

\* total = testScore * 0.8 + qualityScore * 0.2, stated as
\* 5 * total - qualityScore = 4 * testScore
IsWeightedSum(total, testScore, qualityScore) ==
    RAdd(RMul(Num(5), total), RMul(Num(-1), qualityScore)) = RMul(Num(4), testScore)

\* C8: in every result of gradeSubmission, for project type c the total is the
\* quality score and the test score is 0 (quality 85 and smell 80 give total 85,
\* pass); for every other project type the total is testScore * 0.8 +
\* qualityScore * 0.2.
C8_ScoreComposition ==
    outcome.kind = "return" =>
        LET scores == outcome.result.scores
        IN  IF sub.metaType = "c"
            THEN /\ scores.total = scores.qualityScore
                 /\ scores.testScore = Num(0)
                 /\ (/\ Reviewed
                     /\ ReviewedObject.codeQualityScore = Num(85)
                     /\ ReviewedObject.codeSmellScore = Num(80))
                    => /\ scores.total = Num(85)
                       /\ outcome.result.grade = "pass"
            ELSE IsWeightedSum(scores.total, scores.testScore, scores.qualityScore)

\* an executable project with half of its tests passing and a quality score of 90:
\* total 58
C8_Witness ==
    /\ Reviewed
    /\ sub.metaType = "express"
    /\ testResult.passed = 1
    /\ testResult.total = 2
    /\ outcome.result.scores.testScore = Num(50)
    /\ outcome.result.scores.qualityScore = Num(90)
    /\ outcome.result.scores.total = Num(58)

-----------------------------------------------------------------------------
(* C9 *)

\* C9: in every result of gradeSubmission, whatever the project type, the grade is
\* 'pass' if and only if scores.total >= 70, and 'fail' otherwise.
C9_GradeRule ==
    outcome.kind = "return" =>
        LET total == outcome.result.scores.total
        IN  /\ outcome.result.grade \in {"pass", "fail"}
            /\ outcome.result.grade = "pass" <=> total.n >= PassThreshold * total.d

\* a total of exactly 70 that passes
C9_Witness ==
    /\ outcome.kind = "return"
    /\ outcome.result.scores.total = Num(70)
    /\ outcome.result.grade = "pass"

-----------------------------------------------------------------------------
(* C10 *)

\* C10 as stated: for an executable project the quality score of the result is the
\* codeQualityScore the reviewer returned; with all of 10 tests passing and the
\* answer {codeQualityScore: 90, testScore: 100, report} the result is testScore
\* 100, qualityScore 90, total 92, grade pass.
C10_QualityScoreFromReview ==
    (Reviewed /\ sub.metaType # "c" /\ IsNumber(ReviewedObject.codeQualityScore)) =>
        LET scores == outcome.result.scores
        IN  /\ scores.qualityScore = ReviewedObject.codeQualityScore
            /\ (/\ sub.metaType = "express"
                /\ testResult.passed = 10
                /\ testResult.total = 10
                /\ ReviewedObject.codeQualityScore = Num(90)
                /\ ReviewedObject.testScore = Num(100))
               => /\ scores.testScore = Num(100)
                  /\ scores.total = Num(92)
                  /\ outcome.result.grade = "pass"

-----------------------------------------------------------------------------
(* C11 *)

\* the completion call of this run raised, and gradeSubmission has not yet cleaned up
LlmThrew == pc = "finally" /\ llm.kind = "threw"

\* the result of the run is the fallback analysis of analyzeCode's catch block
FallbackResult ==
    /\ outcome.kind = "return"
    /\ outcome.result.report.body.kind = "AI analysis failed"

\* C11: an exception of the completion call does not leave analyzeCode: the analysis is
\* a zero score whose report is 'AI analysis failed: <reason>' with the reason of that
\* exception, gradeSubmission returns instead of raising, and the route's success
\* handler (never its failure handler) takes the result: it sets status 'completed'
\* with the returned scores, and that is what the record holds once its save is through.
C11_LlmFailureNotFatal ==
    [][ /\ LlmThrew' =>
            /\ outcome'.kind = "return"
            /\ outcome'.result.scores.qualityScore = Num(0)
            /\ outcome'.result.report.body = AiAnalysisFailed(llm'.message)
        /\ (FallbackResult /\ viaRoute /\ pc = "settled" /\ pc' # pc) =>
            /\ doc'.status = "completed"
            /\ doc'.scores = outcome.result.scores
            /\ doc'.error = doc.error
            /\ pc' = "done" => (db'.status = "completed" /\ db'.report = outcome.result.report)
      ]_vars

C11_Witness ==
    /\ pc = "done"
    /\ FallbackResult
    /\ outcome.result.report.body = AiAnalysisFailed("timeout")
    /\ db.status = "completed"
    /\ db.scores.qualityScore = Num(0)

-----------------------------------------------------------------------------
(* C12 *)

\* runTests has just returned for a test command that could not be executed
TestsCouldNotRun == pc = "collect" /\ testRun.exit = "failed"

\* C12: runTests never raises: after the test phase gradeSubmission has not raised, and
\* when the test command could not be executed the test result is passed 0, total 0
\* with the error's message as details, and the next phase is the quality review.
C12_RunTestsNeverRaises ==
    /\ LastPhase = "test" => (outcome = Pending /\ pc \in {"collect", "hung"})
    /\ TestsCouldNotRun =>
           testResult = [passed |-> 0, total |-> 0, details |-> "error.message"]
    /\ (testResult.details = "error.message" /\ pc = "finally" /\ llm # NoCompletion) =>
           outcome.kind = "return"

C12_Witness ==
    /\ pc = "finally"
    /\ testResult = [passed |-> 0, total |-> 0, details |-> "error.message"]
    /\ llm.kind = "content"
    /\ outcome.kind = "return"

-----------------------------------------------------------------------------
(* C13 *)

\* the test command ran, the runner printed its counts with failures, and exited with a
\* failure code
SomeTestsFailed ==
    /\ pc = "collect"
    /\ testRun.exit = "failed"
    /\ MatchedInt(testRun.stdout, "failing") > 0

\* C13: when the test command runs and the runner reports P passing and F > 0 failing
\* and exits with a failure code, runTests returns passed = P and total = P + F, so
\* passed < total, which differs from the 0 / 0 of a command that could not run.
C13_FailingTestsCounted ==
    SomeTestsFailed =>
        /\ testResult.passed = MatchedInt(testRun.stdout, "passing")
        /\ testResult.total = MatchedInt(testRun.stdout, "passing")
                              + MatchedInt(testRun.stdout, "failing")
        /\ testResult.passed < testResult.total

-----------------------------------------------------------------------------
(* C14 *)

\* one step of the pipeline or of the route's handlers
GradingStep ==
    \/ Clone
    \/ ReadPackageJson
    \/ Install
    \/ RunTests
    \/ Collect
    \/ Review
    \/ Finally
    \/ ThenHandler
    \/ CatchHandler

\* a pipeline was started and neither gradeSubmission's caller nor the route's handlers
\* have seen its end
InProgress ==
    /\ sub # NoSubmission
    /\ ~HandlersFinished
    /\ ~(~viaRoute /\ pc = "settled")

\* C14: every started pipeline reaches its end ('completed' or 'failed') even when a
\* child process or the completion call never returns: whenever a pipeline is in
\* progress it has a next step, because every wait is bounded by a timeout.
C14_PipelineNeverStuck == InProgress => ENABLED GradingStep

-----------------------------------------------------------------------------
(* C15 *)

\* POST /grade has answered 202 and the pipeline it dispatched has not run a phase yet
AcceptedNotGraded == response = "202" /\ pc = "clone" /\ trace = << >>

\* C15: POST /grade saves the new submission with status 'uploading' and grade
\* 'pending', dispatches gradeSubmission without awaiting it and answers 202: at the
\* answer the record is 'uploading' / 'pending' and the pipeline has run no phase and has
\* not settled; the route's handlers, which write the terminal status, run only after
\* the answer; a request that is not accepted creates no record and starts no pipeline.
C15_AnswerBeforeGrading ==
    [][ /\ (response = "none" /\ response' = "202") =>
            /\ db'.status = "uploading"
            /\ db'.grade = "pending"
            /\ db' = doc'
            /\ AcceptedNotGraded'
            /\ outcome' = Pending
        /\ (viaRoute /\ pc \in {"settled", "thenRejected"} /\ pc' # pc) =>
            /\ response = "202"
            /\ StatusOf(db) \notin Terminal \/ patches > 0
            /\ doc'.status \in Terminal
        /\ response' \notin {"none", "202"} =>
            (db' = NoRecord /\ sub' = NoSubmission /\ trace' = << >>)
      ]_vars

C15_Witness ==
    /\ AcceptedNotGraded
    /\ db.status = "uploading"
    /\ db.grade = "pending"
    /\ outcome = Pending

-----------------------------------------------------------------------------
(* C16 *)

\* the phases of gradeSubmission that have run for the current submission
PhasesRun == {trace[i] : i \in 1 .. Len(trace)}

\* C16: for a submission of project type c, gradeSubmission never invokes the dependency
\* installation or the test execution.
C16_NoInstallNoTestsForC ==
    (sub # NoSubmission /\ sub.metaType = "c") =>
        ("install" \notin PhasesRun /\ "test" \notin PhasesRun)

-----------------------------------------------------------------------------
(* C17 *)

\* the URL names a GitHub repository as https://github.com/<owner>/<repo>: the origin,
\* then two non-empty names of [\w.-] characters with one slash between them
IsGithubRepositoryUrl(v) ==
    /\ Len(v) >= 4
    /\ v[1] = GithubOrigin
    /\ Cardinality({i \in 2 .. Len(v) : v[i] = "/"}) = 1
    /\ v[2] # "/"
    /\ v[Len(v)] # "/"
    /\ \A i \in 2 .. Len(v) : v[i] \in NameChars \cup {"/"}

\* C17: the pipeline (and so git clone) is never started by POST /grade for a submission
\* whose repository URL does not match the GitHub URL pattern: such a submission is
\* rejected at creation, with no record, before gradeSubmission is dispatched.
C17_OnlyGithubUrlsGraded ==
    /\ (viaRoute /\ sub # NoSubmission) => IsGithubRepositoryUrl(sub.githubUrl)
    /\ (viaRoute /\ trace # << >>) => IsGithubRepositoryUrl(sub.githubUrl)
    /\ response = InvalidGithubUrl =>
           (pc = "rejected" /\ sub = NoSubmission /\ db = NoRecord /\ trace = << >>)

C17_Witness ==
    /\ response = InvalidGithubUrl
    /\ pc = "rejected"
    /\ db = NoRecord
    /\ trace = << >>

-----------------------------------------------------------------------------
(* C18 *)

\* C18: in every result of gradeSubmission, scores.total, scores.testScore and
\* scores.qualityScore each lie in [0, 100], whatever number the completion carries and
\* whatever counts the test output reports.
C18_ScoresInRange ==
    outcome.kind = "return" =>
        /\ ScoreInRange(outcome.result.scores.total)
        /\ ScoreInRange(outcome.result.scores.testScore)
        /\ ScoreInRange(outcome.result.scores.qualityScore)

-----------------------------------------------------------------------------
(* C19 *)

\* grade is 'pending' exactly while status is not terminal
GradeFollowsStatus(record) ==
    record # NoRecord => (record.grade = "pending" <=> record.status \notin Terminal)

\* C19: in every state of a submission, grade is 'pending' while status is not terminal
\* and is no longer 'pending' once status is terminal; stated of the route's document
\* and of the persisted record.
C19_PendingUntilTerminal == GradeFollowsStatus(doc) /\ GradeFollowsStatus(db)

-----------------------------------------------------------------------------
(* C20 *)

\* the completion of this run carried no parseable JSON
Unparseable == Reviewed /\ llm.content.kind = "garbage"

\* a report that carries the raw model output
RawOutputReport(content) == [kind |-> "Raw output", content |-> content]

\* C20: when the completion carries no parseable JSON, the analysis has score 0 and its
\* report contains the raw model output.
C20_RawOutputKept ==
    Unparseable =>
        /\ outcome.result.scores.qualityScore = Num(0)
        /\ outcome.result.report.body = RawOutputReport(llm.content)

-----------------------------------------------------------------------------
(* C24 *)

\* the position of a phase that has run
PhaseIndex(p) == CHOOSE i \in 1 .. Len(trace) : trace[i] = p

\* phase b has run only after phase a had finished
Before(a, b) ==
    b \in PhasesRun => (a \in PhasesRun /\ PhaseIndex(a) < PhaseIndex(b))

EachPhaseAtMostOnce ==
    \A i, j \in 1 .. Len(trace) : trace[i] = trace[j] => i = j

\* C24 as stated: within one run each phase executes at most once and in the order
\* clone, install, test run, then file collection and registry resolution, then the
\* review, then the score composition.
C24_PhaseOrderAsStated ==
    /\ EachPhaseAtMostOnce
    /\ Before("clone", "install")
    /\ Before("install", "test")
    /\ Before("test", "collect")
    /\ Before("test", "registry")
    /\ Before("collect", "review")
    /\ Before("registry", "review")
    /\ Before("review", "compose")

\* C24 amended: within one run each phase executes at most once and in the order
\* clone, registry resolution, install, test run, file collection, review, score
\* composition; no phase starts before its predecessor has finished.
C24_PhaseOrder ==
    /\ EachPhaseAtMostOnce
    /\ Before("clone", "registry")
    /\ Before("registry", "install")
    /\ Before("install", "test")
    /\ Before("test", "collect")
    /\ Before("collect", "review")
    /\ Before("review", "compose")

C24_Witness ==
    /\ pc = "finally"
    /\ trace = << "clone", "registry", "install", "test", "collect", "review", "compose" >>

-----------------------------------------------------------------------------
(* C25 *)

\* the report text as analyzeCode returns it for the parsed response
ReviewedReport ==
    IF ReviewedObject.report = Absent THEN NoAnalysisProvided ELSE ReviewedObject.report

\* the parsed response carries no numeric quality score, under either field name
LacksQualityScore ==
    /\ Reviewed
    /\ ~IsNumber(ReviewedObject.score)
    /\ ~IsNumber(ReviewedObject.codeQualityScore)

\* C25: when the parsed response lacks a numeric quality score, the quality score of
\* the result is the one the report text mentions ('Code Quality Score: N/100' or its
\* table row), and 0 only when the text mentions none; for the C branch and for the
\* other project types alike.
C25_ScoreRescuedFromReport ==
    LacksQualityScore =>
        outcome.result.scores.qualityScore
            = extractScoresFromReport(ReviewedReport).codeQualityScore

-----------------------------------------------------------------------------
(* C27 *)

\* the reviewer's prompt has been built for a project type other than c
PromptBuilt ==
    /\ pc \in {"review", "finally"}
    /\ prompt # NoPrompt
    /\ sub.metaType # "c"

\* C27: for the executable project types, the test result that runTests produced is the
\* value handed to analyzeCode and embedded in its prompt.
C27_PromptCarriesTestResult == PromptBuilt => prompt.testResults = testResult

-----------------------------------------------------------------------------
(* C29 *)

\* C29: no grading run ends in an unhandled promise rejection: a rejected save of the
\* outcome, in the success handler or in the failure handler, is handled.
C29_NoUnhandledRejection == pc # "unhandledRejection"

-----------------------------------------------------------------------------
(* C30 *)

\* gradeSubmission has returned a result of the C branch
CResult == outcome.kind = "return" /\ sub.metaType = "c"

\* the score of a breakdown entry, by category
BreakdownScore(breakdown, category) ==
    LET i == CHOOSE k \in 1 .. Len(breakdown) : breakdown[k].category = category
    IN  breakdown[i].score

\* C30: in every result of the C branch the breakdown entry 'Code Quality' equals
\* scores.qualityScore and scores.total, and the entry 'Code Smell' equals the code smell
\* score of the report header, also when a score was recovered from the report text.
C30_BreakdownMatchesScores ==
    CResult =>
        LET scores == outcome.result.scores
        IN  /\ BreakdownScore(scores.breakdown, "Code Quality") = scores.qualityScore
            /\ BreakdownScore(scores.breakdown, "Code Quality") = scores.total
            /\ BreakdownScore(scores.breakdown, "Code Smell") = outcome.result.report.smell

-----------------------------------------------------------------------------
(* C28 *)

\* C28: a grading request with projectType 'c' sent through POST /grade is accepted,
\* saved and dispatched: it is never rejected at creation for its project type, and a
\* submission that POST /grade dispatched can be one of type c.
C28_CRequestAccepted == response # ProjectTypeCNotInEnum

-----------------------------------------------------------------------------
(* C23 *)

\* parseTestResults has returned
Parsed == parseResult # NoTestResult

\* 'N <word>' occurs in the output at position i
Occurs(w, i) ==
    /\ i \in 1 .. Len(parseInput) - 1
    /\ parseInput[i] \in {Digits(c) : c \in TestCounts}
    /\ parseInput[i + 1] = Word(w)

\* n is the number of the first 'N <word>' of the output, and 0 when there is none
IsFirstCount(w, n) ==
    /\ (\A i \in 1 .. Len(parseInput) : ~Occurs(w, i)) => n = 0
    /\ \A i \in 1 .. Len(parseInput) :
           (Occurs(w, i) /\ \A j \in 1 .. i - 1 : ~Occurs(w, j)) => n = parseInput[i].digits

\* C23: over any runner output, passed is the number of the first 'N passing' (0 if
\* absent) and total is passed plus the number of the first 'N failing' (0 if absent);
\* output with neither pattern gives passed 0 and total 0; passed <= total always.
C23_ParseTestResults ==
    Parsed =>
        /\ IsFirstCount("passing", parseResult.passed)
        /\ IsFirstCount("failing", parseResult.total - parseResult.passed)
        /\ parseResult.passed <= parseResult.total
        /\ (\A i \in 1 .. Len(parseInput) : ~Occurs("passing", i) /\ ~Occurs("failing", i))
               => (parseResult.passed = 0 /\ parseResult.total = 0)

C23_Witness ==
    /\ parseInput = << Digits(1), Word("passing"), Digits(2), Word("passing") >>
    /\ parseResult.passed = 1
    /\ parseResult.total = 1

-----------------------------------------------------------------------------
(* C21 *)

\* C21: for any set of declared dependencies, any lookups that fail and any order in
\* which the concurrent lookups settle, fetchNpmVersions never rejects, and it resolves
\* with a map that has exactly one entry per dependency: the registry's latest version
\* where the lookup succeeded, and 'unknown' where it failed or gave no version.
C21_OneEntryPerDependency ==
    /\ fetched # "rejected"
    /\ DOMAIN result \subseteq deps
    /\ fetched = "resolved" =>
        /\ DOMAIN result = deps
        /\ \A d \in deps :
            /\ (lookups[d].kind = "ok" /\ lookups[d].latest \in Versions)
                   => result[d] = lookups[d].latest
            /\ lookups[d].kind # "ok" => result[d] = "unknown"
            /\ result[d] \in Versions \cup {"unknown"}

C21_Witness ==
    /\ fetched = "resolved"
    /\ deps = DepNames
    /\ lookups["express"] = [kind |-> "ok", latest |-> "2.0.0"]
    /\ lookups["lodash"].kind = "fetchThrew"
    /\ lookups["mocha"].kind = "notOk"
    /\ result = [d \in DepNames |-> IF d = "express" THEN "2.0.0" ELSE "unknown"]

-----------------------------------------------------------------------------
(* C22 *)

\* the readable files of the repository that some pattern matches
ReadableMatches ==
    {rel \in DOMAIN repoFiles :
        /\ repoFiles[rel].readable
        /\ \E i \in 1 .. Len(patterns) : rel \in Matching(patterns[i])}

\* the block is the file's text, cut after the cap and marked when the text is longer
BlockOf(block, text) ==
    IF Length(text) > FileCharCap
    THEN /\ block.truncated
         /\ Length(block.body) = FileCharCap
         /\ block.body = Slice(text, FileCharCap)
    ELSE ~block.truncated /\ block.body = text

-----------------------------------------------------------------------------
(* C26 *)

\* tab, line feed, carriage return, space
StandardWhitespace == {9, 10, 13, 32}

\* the printable characters
Printable(ch) == 32 < ch /\ ch < 127

\* the text without its non-printable control characters
WithoutControlCharacters(text) ==
    LET Kept(run) == run.ch \in StandardWhitespace \/ Printable(run.ch)
    IN  SelectSeq(text, Kept)

\* C26: the sanitization removes the non-printable control characters only: every tab,
\* line feed, carriage return, space and printable character of a file's content is in
\* the collected text, unchanged and in its original order.
C26_WhitespacePreserved ==
    \A i \in 1 .. Len(fileContents) :
        ~fileContents[i].truncated =>
            fileContents[i].body
                = WithoutControlCharacters(repoFiles[fileContents[i].header].content)

====
